---- MODULE Spec2Model ----
(***************************************************************************)
(* Vector error correction model estimation (statsmodels/tsa/vecm/vecm.py). *)
(*                                                                         *)
(* The module models                                                       *)
(*   - the builder _endog_matrices (exact matrix contents),                *)
(*   - the VECM model object: construction and fit with its three          *)
(*     estimators, at the level of control flow, exceptions, matrix        *)
(*     shapes and the eigenpairs selected,                                 *)
(*   - the VECMResults container with its partition of beta and gamma,     *)
(*     its derived attributes (shapes, exceptions, the offsets of          *)
(*     stderr_params each standard error is read from, var_repr as linear  *)
(*     combinations of matrix columns) and their caching,                  *)
(*   - the float64 rounding of the normalisation of beta for r = 1.        *)
(*                                                                         *)
(* Matrices are records [r, c, d]: r rows, c columns, d the sequence of    *)
(* rows.  The shape is kept apart from the data because numpy keeps it     *)
(* for empty arrays too (shape (0, T) differs from shape (0, 0)).          *)
(* Python indices are 0-based; d is 1-based.                               *)
(*                                                                         *)
(* Real numbers are held in fixed point, as integer multiples of           *)
(* 1/num_of_seas, which is exact for every value the builder produces.     *)
(* True division (1 / num_of_seas = 0.25) is the division of Python 3.     *)
(***************************************************************************)
EXTENDS Integers, Sequences, FiniteSets, TLC

\* ------------------------------------------------------------------ bounds
MaxK == 2
MaxN == 7
MaxNobs == 6
MaxLags == 2
MaxCurv == 1
MaxLead == 64
MaxReads == 2

\* ------------------------------------------------------- program constants
num_of_seas == 4

\* ----------------------------------------------------------- number format
Real(n) == n * num_of_seas

\* ------------------------------------------------------------ deterministic
\* The deterministic argument is a string tested with the substring
\* operator `in`; a string built from the four terms contains exactly the
\* terms it was built from, so it is held as the set of its terms.
DetTerms == {"co", "cc", "lt", "s"}
DetSpecs == SUBSET DetTerms

\* ------------------------------------------------------------------ helpers
Max2(a, b) == IF a >= b THEN a ELSE b
Min2(a, b) == IF a <= b THEN a ELSE b

\* Python's normalisation of a slice bound for a forward slice of a
\* sequence of length n: a negative bound counts from the end, and the
\* result is clipped to 0..n.
FwdBound(x, n) == IF x < 0 THEN Max2(x + n, 0) ELSE Min2(x, n)

\* The 0-based indices picked by seq[a:b], seq[a:] and seq[:b].
Slice(n, a, b) ==
    LET lo == FwdBound(a, n)
        hi == FwdBound(b, n)
    IN  IF hi > lo THEN [i \in 1..(hi - lo) |-> lo + i - 1] ELSE << >>
SliceFrom(n, a) ==
    LET lo == FwdBound(a, n)
    IN  IF n > lo THEN [i \in 1..(n - lo) |-> lo + i - 1] ELSE << >>
SliceTo(n, b) == Slice(n, 0, b)

\* seq[a::step] for a >= 0 and step > 0, as a set of 0-based indices.
StrideFrom(n, a, step) == {i \in 0..(n - 1) : i >= a /\ (i - a) % step = 0}

\* Python's normalisation of a slice bound for a slice with step -1:
\* the result is clipped to -1..n-1.
RevBound(x, n) == IF x < 0 THEN Max2(x + n, -1) ELSE Min2(x, n - 1)

\* The 0-based indices picked by seq[a:b:-1] and by seq[a:None:-1].
RevSlice(n, a, b) ==
    LET hi == RevBound(a, n)
        lo == RevBound(b, n)
    IN  IF hi > lo THEN [i \in 1..(hi - lo) |-> hi - i + 1] ELSE << >>
RevSliceToStart(n, a) ==
    LET hi == RevBound(a, n)
    IN  IF hi >= 0 THEN [i \in 1..(hi + 1) |-> hi - i + 1] ELSE << >>

\* ----------------------------------------------------------------- matrices
Shape(M) == <<M.r, M.c>>

\* M[:, idx] for a sequence idx of 0-based column indices.
TakeCols(M, idx) ==
    [r |-> M.r, c |-> Len(idx),
     d |-> [i \in 1..(M.r) |-> [j \in 1..(Len(idx)) |->
              M.d[i][idx[j] + 1]]]]

\* np.zeros((rows, cols)), np.ones(T) as one row, np.arange(T) + 1 as one row.
zeros(rows, cols) ==
    [r |-> rows, c |-> cols,
     d |-> [i \in 1..(rows) |-> [j \in 1..(cols) |->
              Real(0)]]]
ones(T) ==
    [r |-> 1, c |-> T,
     d |-> [i \in 1..(1) |-> [j \in 1..(T) |->
              Real(1)]]]
arange_plus_1(T) ==
    [r |-> 1, c |-> T,
     d |-> [i \in 1..(1) |-> [j \in 1..(T) |->
              Real((j - 1) + 1)]]]

\* np.vstack / np.hstack of two arrays; numpy raises ValueError unless the
\* other dimension agrees.
vstack_ok(A, B) == A.c = B.c
vstack(A, B) ==
    [r |-> A.r + B.r, c |-> A.c,
     d |-> [i \in 1..(A.r + B.r) |-> [j \in 1..(A.c) |->
              IF i <= A.r THEN A.d[i][j] ELSE B.d[i - A.r][j]]]]
hstack_ok(A, B) == A.r = B.r
hstack(A, B) ==
    [r |-> A.r, c |-> A.c + B.c,
     d |-> [i \in 1..(A.r) |-> [j \in 1..(A.c + B.c) |->
              IF j <= A.c THEN A.d[i][j] ELSE B.d[i][j - A.c]]]]

\* np.diff along the last axis.
diff(M) ==
    [r |-> M.r, c |-> Max2(M.c - 1, 0),
     d |-> [i \in 1..(M.r) |-> [j \in 1..(Max2(M.c - 1, 0)) |->
              M.d[i][j + 1] - M.d[i][j]]]]

\* M.T.reshape(size): the row-major flattening of the transpose, i.e. the
\* columns of M one after the other; numpy raises ValueError unless the
\* number of elements is size.
T_reshape_ok(M, size) == M.r * M.c = size
T_reshape(M) == [k \in 1..(M.r * M.c) |-> M.d[((k - 1) % M.r) + 1][((k - 1) \div M.r) + 1]]

\* ------------------------------------------------------ _endog_matrices
\* The slice of line 98 for column j (0-based) of delta_x:
\* delta_y[:, j+p-2 : None if j-1 < 0 else j-1 : -1]
\* Mutant of lag_slice: the same lagged differences, oldest first.
lag_slice_oldest_first(delta_y, j, p) ==
    TakeCols(delta_y, Slice(delta_y.c, j, j + p - 1))

lag_slice(delta_y, j, p) ==
    TakeCols(delta_y,
             IF j - 1 < 0 THEN RevSliceToStart(delta_y.c, j + p - 2)
                          ELSE RevSlice(delta_y.c, j + p - 2, j - 1))

\* The loop of lines 96-99 completes iff every reshape does.
lag_loop_ok(delta_y, K, p, T) ==
    \A j \in 0..(T - 1) : T_reshape_ok(lag_slice(delta_y, j, p), K * (p - 1))

lag_rows(delta_y, K, p, T) ==
    LET delta_x == zeros((p - 1) * K, T)
    IN  [r |-> delta_x.r, c |-> delta_x.c,
         d |-> [i \in 1..(delta_x.r) |-> [j \in 1..(delta_x.c) |->
                  T_reshape(lag_slice(delta_y, j - 1, p))[i]]]]

\* Mutant of seasons_init: one indicator row per season instead of
\* num_of_seas - 1.
seasons_init_all_seasons(cols) ==
    [r |-> num_of_seas, c |-> cols,
     d |-> [i \in 1..(num_of_seas) |-> [j \in 1..(cols) |->
              IF (j - 1) \in StrideFrom(cols, i - 1, num_of_seas) THEN Real(1) ELSE Real(0)]]]
\* Lines 105-114: the seasonal rows for a delta_x with cols columns.
seasons_init(cols) ==
    [r |-> num_of_seas - 1, c |-> cols,
     d |-> [i \in 1..(num_of_seas - 1) |-> [j \in 1..(cols) |->
              IF (j - 1) \in StrideFrom(cols, i - 1, num_of_seas) THEN Real(1) ELSE Real(0)]]]
\* Mutant of seasons_rotated: the rotation by one column of the
\* commented-out line 110.
seasons_rotated_by_one(cols) ==
    hstack(TakeCols(seasons_init(cols), Slice(cols, 3, 4)),
           TakeCols(seasons_init(cols), SliceTo(cols, -1)))
seasons_rotated(cols) ==
    hstack(TakeCols(seasons_init(cols), Slice(cols, 1, 4)),
           TakeCols(seasons_init(cols), SliceTo(cols, -3)))
seasons_centered(cols) ==
    LET s == seasons_rotated(cols)
    IN  [r |-> s.r, c |-> s.c,
         d |-> [i \in 1..(s.r) |-> [j \in 1..(s.c) |->
                  s.d[i][j] - (Real(1) \div num_of_seas)]]]

\* A raised exception: its type and, where the code builds the message, the
\* values formatted into it.
RaisedWith(exc, args) == [ok |-> FALSE, exc |-> exc, args |-> args]
Raised(exc) == RaisedWith(exc, << >>)

_endog_matrices(endog_tot, diff_lags, deterministic) ==
    LET p == diff_lags + 1
        y == endog_tot
        K == y.r
        y_1_T == TakeCols(y, SliceFrom(y.c, p))
        T == y_1_T.c
        delta_y == diff(y)
        delta_y_1_T == TakeCols(delta_y, SliceFrom(delta_y.c, p - 1))
        y_lag == TakeCols(y, Slice(y.c, p - 1, -1))
        y_min1 == IF "cc" \in deterministic THEN vstack(y_lag, ones(T))
                                            ELSE y_lag
        dx_lags == lag_rows(delta_y, K, p, T)
        dx_co == IF "co" \in deterministic THEN vstack(dx_lags, ones(T))
                                           ELSE dx_lags
        seasons == seasons_centered(dx_co.c)
        dx_s == IF "s" \in deterministic THEN vstack(dx_co, seasons)
                                         ELSE dx_co
        delta_x == IF "lt" \in deterministic
                   THEN vstack(dx_s, arange_plus_1(T)) ELSE dx_s
    IN  IF "cc" \in deterministic /\ ~vstack_ok(y_lag, ones(T))
          THEN Raised("ValueError")
        ELSE IF ~lag_loop_ok(delta_y, K, p, T)
          THEN Raised("ValueError")
        ELSE IF "co" \in deterministic /\ ~vstack_ok(dx_lags, ones(T))
          THEN Raised("ValueError")
        ELSE IF "s" \in deterministic /\ ~vstack_ok(dx_co, seasons)
          THEN Raised("ValueError")
        ELSE IF "lt" \in deterministic /\ ~vstack_ok(dx_s, arange_plus_1(T))
          THEN Raised("ValueError")
        ELSE [ok |-> TRUE, y_1_T |-> y_1_T, delta_y_1_T |-> delta_y_1_T,
              y_min1 |-> y_min1, delta_x |-> delta_x]

\* ------------------------------------------------------------ input series
\* A K x N series (neqs x total_nobs): y[k][n] = curv*n^2 + (10*k)*n + k
\* for 0-based k, n, so that for curv > 0 every first difference
\* 2*curv*n + curv + 10*k identifies its row and its period.
Series(K, N, curv) ==
    [r |-> K, c |-> N,
     d |-> [i \in 1..(K) |-> [j \in 1..(N) |->
              Real(curv * (j - 1) * (j - 1) + 10 * (i - 1) * (j - 1) + (i - 1))]]]

\* ------------------------------------------------------- optional values
\* Python's None and a present value.
None == << >>
Some(x) == <<x>>

\* ---------------------------------------------------- estimated matrices
\* The estimators' floating-point results are held by their shape.
Est(rows, cols) == [r |-> rows, c |-> cols]

\* np.vsplit(M, [k]) and np.hsplit(M, [k]) on shapes: the two parts.
vsplit(M, k) == <<Est(Min2(k, M.r), M.c), Est(Max2(M.r - k, 0), M.c)>>
hsplit(M, k) == <<Est(M.r, Min2(k, M.c)), Est(M.r, Max2(M.c - k, 0))>>

\* A.dot(B) raises ValueError unless the inner dimensions agree.
dot_ok(A, B) == A.c = B.r

Transpose(M) ==
    [r |-> M.c, c |-> M.r,
     d |-> [i \in 1..(M.c) |-> [j \in 1..(M.r) |->
              M.d[j][i]]]]

\* ------------------------------------------------------------ numerics
\* What the data decides in the linear-algebra layer is an input of the
\* estimation, env:
\*   env.singular   an inversion meets a singular matrix (LinAlgError);
\*   env.lambd      the eigenvalues in the order np.linalg.eig returns
\*                  them, each named by its rank (1 = the largest).
\* With no observation (T = 0) every cross-product is a zero matrix and the
\* first inversion raises whatever the data.
inv_raises(T, env) == T = 0 \/ env.singular

\* ---------------------------------------------------------------- _sij
\* Lines 200-209: the moment matrices, and lambd, v of np.linalg.eig in
\* eig's own order; column i of v belongs to lambd[i].
_sij(delta_x, delta_y_1_T, y_min1, env) ==
    LET T == y_min1.c
    IN  IF inv_raises(T, env) THEN Raised("LinAlgError")
        ELSE [ok |-> TRUE,
              s00 |-> Est(delta_y_1_T.r, delta_y_1_T.r),
              s01 |-> Est(delta_y_1_T.r, y_min1.r),
              s10 |-> Est(y_min1.r, delta_y_1_T.r),
              s11 |-> Est(y_min1.r, y_min1.r),
              s11_ |-> Est(y_min1.r, y_min1.r),
              lambd |-> env.lambd,
              v |-> env.lambd]

\* --------------------------------------------------------- VECMResults
\* Mutant of VECMResults_init: gamma split at column K*p instead of
\* K*(p-1).
VECMResults_init_split_at_Kp(endog_tot, level_var_lag_order, coint_rank, alpha, beta, gamma, sigma_u, deterministic, delta_y_1_T, y_min1, delta_x, beta_eig, lambd) ==
    LET K == endog_tot.r
        p == level_var_lag_order
        bs == vsplit(beta, K)
        gs == hsplit(gamma, K * p)
    IN  [y_all |-> endog_tot, K |-> K, p |-> p,
         deterministic |-> deterministic, r |-> coint_rank,
         alpha |-> alpha, beta |-> bs[1], det_coef_coint |-> bs[2],
         gamma |-> gs[1], det_coef |-> gs[2], sigma_u |-> sigma_u,
         delta_y_1_T |-> delta_y_1_T, y_min1 |-> y_min1,
         delta_x |-> delta_x, T |-> y_min1.c,
         beta_eig |-> beta_eig, lambd |-> lambd]

\* VECMResults.__init__ called with the three builder matrices, as
\* _estimate_vecm_ml calls it.  beta_eig is the model's record of the
\* eigenvectors beta was formed from, lambd of what _sij returns for the
\* stored matrices.
VECMResults_init(endog_tot, level_var_lag_order, coint_rank, alpha, beta, gamma, sigma_u, deterministic, delta_y_1_T, y_min1, delta_x, beta_eig, lambd) ==
    LET K == endog_tot.r
        p == level_var_lag_order
        bs == vsplit(beta, K)
        gs == hsplit(gamma, K * (p - 1))
    IN  [y_all |-> endog_tot, K |-> K, p |-> p,
         deterministic |-> deterministic, r |-> coint_rank,
         alpha |-> alpha, beta |-> bs[1], det_coef_coint |-> bs[2],
         gamma |-> gs[1], det_coef |-> gs[2], sigma_u |-> sigma_u,
         delta_y_1_T |-> delta_y_1_T, y_min1 |-> y_min1,
         delta_x |-> delta_x, T |-> y_min1.c,
         beta_eig |-> beta_eig, lambd |-> lambd]

\* VECMResults.llf: the eigenvalues whose log(1 - lambda) enters the sum
\* are np.log(1-lambd)[:r].
VECMResults_llf(self) ==
    [K |-> self.K, T |-> self.T,
     log_terms |-> SubSeq(self.lambd, 1, Min2(self.r, Len(self.lambd)))]

\* ------------------------------------------------------------------ VECM
Returned(kind, value) == [ok |-> TRUE, kind |-> kind, value |-> value]

\* statsmodels.tsa.base.tsa_model.TimeSeriesModel.__init__ stores the
\* series as self.endog: a series of one variable arrives 1-dimensional.
\* An array is [ndim, m]; a 1-dimensional array of length n is stored as
\* the n x 1 matrix m.
TimeSeriesModel_endog(endog_tot) ==
    IF endog_tot.ndim = 2 /\ endog_tot.m.c = 1
    THEN [endog_tot EXCEPT !.ndim = 1] ELSE endog_tot

NoModel == [exists |-> FALSE]

\* Mutant of VECM_init: the constructor without its check of endog.ndim.
VECM_init_unchecked(endog_tot) ==
    LET endog == TimeSeriesModel_endog(endog_tot)
    IN  [self |-> [exists |-> TRUE, y |-> Transpose(endog.m),
                   neqs |-> endog.m.c, has_p |-> FALSE, p |-> 0],
         ret |-> Returned("VECM", << >>)]

VECM_init(endog_tot) ==
    LET endog == TimeSeriesModel_endog(endog_tot)
    IN  IF endog.ndim = 1
        THEN [self |-> NoModel,
              ret |-> RaisedWith("ValueError", <<"Only gave one variable to VECM">>)]
        ELSE [self |-> [exists |-> TRUE, y |-> Transpose(endog.m),
                        neqs |-> endog.m.c, has_p |-> FALSE, p |-> 0],
              ret |-> Returned("VECM", << >>)]

_ls_pi_gamma(delta_y_1_T, y_min1, delta_x, diff_lags, deterministic, env) ==
    LET K == delta_y_1_T.r
        T == delta_y_1_T.c
        est_pi_gamma == Est(K, y_min1.r + delta_x.r)
        pi_cols == K + (IF "cc" \in deterministic THEN 1 ELSE 0)
                     + (IF "lt" \in deterministic THEN 1 ELSE 0)
        pi_hat == hsplit(est_pi_gamma, pi_cols)[1]
        gamma_hat == hsplit(est_pi_gamma, pi_cols)[2]
        p == diff_lags + 1
    IN  IF inv_raises(T, env) THEN Raised("LinAlgError")
        ELSE IF ~dot_ok(pi_hat, y_min1) \/ ~dot_ok(gamma_hat, delta_x)
          THEN Raised("ValueError")
        ELSE IF T - K * p = 0 THEN Raised("ZeroDivisionError")
        ELSE [ok |-> TRUE, pi_hat |-> pi_hat, gamma_hat |-> gamma_hat,
              sigma_u_hat |-> Est(K, K)]

\* The estimators call the builder once and work on what it returned:
\* em is that value (or the exception the builder raised).
ls_on(em, diff_lags, deterministic, env) ==
    LET ls == _ls_pi_gamma(em.delta_y_1_T, em.y_min1, em.delta_x,
                           diff_lags, deterministic, env)
    IN  IF ~em.ok THEN em
        ELSE IF ~ls.ok THEN ls
        ELSE Returned("dict", [Pi_hat |-> ls.pi_hat,
                               Gamma_hat |-> ls.gamma_hat,
                               Sigma_u_hat |-> ls.sigma_u_hat])

_estimate_vecm_ls(self, diff_lags, deterministic, env) ==
    CHOOSE res \in {ls_on(em, diff_lags, deterministic, env) :
                      em \in {_endog_matrices(self.y, diff_lags, deterministic)}} : TRUE

egls_on(em, diff_lags, deterministic, r, env) ==
    LET ls == _ls_pi_gamma(em.delta_y_1_T, em.y_min1, em.delta_x,
                           diff_lags, deterministic, env)
        alpha_hat == hsplit(ls.pi_hat, r)[1]
        r12 == vsplit(Est(em.y_min1.r, em.y_min1.c), r)[2]
        beta_hhat == Est(r + r12.r, r)
    IN  IF ~em.ok THEN em
        ELSE IF ~ls.ok THEN ls
        ELSE Returned("dict", [alpha |-> alpha_hat, beta |-> beta_hhat,
                               Gamma |-> ls.gamma_hat,
                               Sigma_u |-> ls.sigma_u_hat])

_estimate_vecm_egls(self, diff_lags, deterministic, r, env) ==
    CHOOSE res \in {egls_on(em, diff_lags, deterministic, r, env) :
                      em \in {_endog_matrices(self.y, diff_lags, deterministic)}} : TRUE

ml_on(em, self, deterministic, r, env) ==
    LET sij == _sij(em.delta_x, em.delta_y_1_T, em.y_min1, env)
        v_r == SubSeq(sij.v, 1, Min2(r, Len(sij.v)))
        beta_tilde == Est(sij.s11_.r, Len(v_r))
        alpha_tilde == Est(sij.s01.r, beta_tilde.c)
        gamma_tilde == Est(em.delta_y_1_T.r, em.delta_x.r)
        sigma_u_tilde == Est(em.delta_y_1_T.r, em.delta_y_1_T.r)
    IN  IF ~em.ok THEN em
        ELSE IF ~sij.ok THEN sij
        ELSE Returned("VECMResults",
                 VECMResults_init(self.y, self.p, r, alpha_tilde, beta_tilde,
                                  gamma_tilde, sigma_u_tilde, deterministic,
                                  em.delta_y_1_T, em.y_min1, em.delta_x,
                                  v_r, sij.lambd))

_estimate_vecm_ml(self, diff_lags, deterministic, r, env) ==
    CHOOSE res \in {ml_on(em, self, deterministic, r, env) :
                      em \in {_endog_matrices(self.y, diff_lags, deterministic)}} : TRUE

Methods == <<"ls", "egls", "ml">>

\* VECM.fit: the new state of the model object and what the call returns
\* or raises.  diff_lags and coint_rank are None or Some(n).
VECM_fit(self, diff_lags, method, deterministic, coint_rank, env) ==
    IF diff_lags = None THEN [self |-> self, ret |-> Raised("TypeError")]
    ELSE
      LET self1 == [self EXCEPT !.has_p = TRUE, !.p = diff_lags[1] + 1]
          rank == IF coint_rank = None THEN 1 ELSE coint_rank[1]
      IN  [self |-> self1,
           ret |->
             IF method = "ls"
               THEN _estimate_vecm_ls(self1, diff_lags[1], deterministic, env)
             ELSE IF method = "egls"
               THEN _estimate_vecm_egls(self1, diff_lags[1], deterministic,
                                        rank, env)
             ELSE IF method = "ml"
               THEN _estimate_vecm_ml(self1, diff_lags[1], deterministic,
                                      rank, env)
             ELSE RaisedWith("ValueError", <<method, Methods>>)]

\* ------------------------------------- VECMResults: derived attributes
\* The derived attributes of a results object are held by shape, except
\*   - stderr_params and the blocks cut from it, whose entries are named
\*     by their offset in stderr_params (entry k of np.sqrt(np.diag(
\*     cov_params)) is the number k), so that the association of a
\*     standard error with its parameter is visible;
\*   - var_repr, whose matrices are held as linear combinations of the
\*     columns of alpha.dot(beta.T), of the identity and of gamma.
\* What the data decides in the inversions made after the fit is num:
\*   num.omega_singular   inv(omega) of cov_params raises LinAlgError;
\*   num.coint_singular   an inversion of stderr_coint raises LinAlgError
\*                        (inv of an empty matrix raises or not with the
\*                        numpy version, and is held the same way).
Value(v) == [ok |-> TRUE, v |-> v]

size(M) == M.r * M.c
EstT(M) == Est(M.c, M.r)

\* np.kron(A, B) and A.dot(B) on shapes.
kron(A, B) == Est(A.r * B.r, A.c * B.c)
dot(A, B) == Est(A.r, B.c)

\* A / B and A + B elementwise: numpy broadcasts a dimension of 1 and
\* raises ValueError for any other disagreement.
broadcast_ok(A, B) ==
    /\ A.r = B.r \/ A.r = 1 \/ B.r = 1
    /\ A.c = B.c \/ A.c = 1 \/ B.c = 1
broadcast(A, B) ==
    Est(IF A.r = 1 THEN B.r ELSE A.r, IF A.c = 1 THEN B.c ELSE A.c)

\* M[a:] and M[:b] of a 2-dimensional array: a slice of its rows.
rows_from(M, a) == Est(Len(SliceFrom(M.r, a)), M.c)
rows_to(M, b) == Est(Len(SliceTo(M.r, b)), M.c)

\* np.sqrt(np.diag(M)): entry k is named k.
sqrt_diag(M) == [k \in 1..(Min2(M.r, M.c)) |-> k - 1]

\* flat[idx] for a sequence idx of 0-based offsets.
take(flat, idx) == [n \in 1..(Len(idx)) |-> flat[idx[n] + 1]]

\* Mutant of reshape_F: the row-major unflattening (order="C").
reshape_C(flat, shape) ==
    [r |-> shape.r, c |-> shape.c,
     d |-> [i \in 1..(shape.r) |-> [j \in 1..(shape.c) |->
              flat[(i - 1) * shape.c + (j - 1) + 1]]]]

\* flat.reshape(shape, order="F"); numpy raises ValueError unless the
\* number of elements agrees.
reshape_ok(flat, shape) == Len(flat) = shape.r * shape.c
reshape_F(flat, shape) ==
    [r |-> shape.r, c |-> shape.c,
     d |-> [i \in 1..(shape.r) |-> [j \in 1..(shape.c) |->
              flat[(i - 1) + (j - 1) * shape.r + 1]]]]

VECMResults_num_det_coef_coint(self) ==
    Value(0 + (IF "cc" \in self.deterministic THEN 1 ELSE 0))

VECMResults_cov_params(self, num_det_coef_coint, num) ==
    LET beta == self.beta
        dt == self.deterministic
        num_det == (IF "co" \in dt THEN 1 ELSE 0)
                   + 3 * (IF "s" \in dt THEN 1 ELSE 0)
                   + (IF "lt" \in dt THEN 1 ELSE 0)
        id == self.K * (self.p - 1) + num_det
        b_id == Est(beta.r + id, beta.c + id)
        y_min1 == IF num_det_coef_coint > 0
                  THEN rows_to(self.y_min1, 0 - num_det_coef_coint)
                  ELSE Est(self.y_min1.r, self.y_min1.c)
        b_y == dot(EstT(beta), y_min1)
        omega == Est(b_y.r + self.delta_x.r, b_y.r + self.delta_x.r)
        mat1 == Est(b_id.r, b_id.r)
    IN  IF ~dot_ok(EstT(beta), y_min1) THEN Raised("ValueError")
        ELSE IF ~dot_ok(b_y, EstT(self.delta_x)) THEN Raised("ValueError")
        ELSE IF num.omega_singular THEN Raised("LinAlgError")
        ELSE IF ~dot_ok(b_id, omega) THEN Raised("ValueError")
        ELSE Value(kron(mat1, self.sigma_u))

VECMResults_stderr_params(self, cov_params) == Value(sqrt_diag(cov_params))

VECMResults_stderr_coint(self, num) ==
    LET r1 == Est(self.y_min1.r, self.y_min1.c)
        r12 == rows_from(r1, self.r)
        mat1 == Est(r12.r, r12.r)
        det == self.det_coef_coint.r
        a_s_a == dot(dot(EstT(self.alpha), self.sigma_u), self.alpha)
        mat2 == kron(Est(self.K - self.r + det, self.K - self.r + det), a_s_a)
        first_rows == Est(self.r, self.r)
        last_rows_1d == sqrt_diag(dot(mat1, mat2))
        last_shape == Est(self.K - self.r + det, self.r)
    IN  IF num.coint_singular THEN Raised("LinAlgError")
        ELSE IF ~dot_ok(EstT(self.alpha), self.sigma_u)
                \/ ~dot_ok(self.sigma_u, self.alpha)
          THEN Raised("ValueError")
        ELSE IF ~dot_ok(mat1, mat2) THEN Raised("ValueError")
        ELSE IF ~reshape_ok(last_rows_1d, last_shape) THEN Raised("ValueError")
        ELSE IF ~vstack_ok(first_rows, last_shape) THEN Raised("ValueError")
        ELSE Value(Est(first_rows.r + last_shape.r, first_rows.c))

\* The offsets of stderr_params read by stderr_alpha, stderr_gamma and
\* stderr_det_coef (lines 594, 610-612, 619), as numpy clips them.
stderr_alpha_range(self, n) == SliceTo(n, size(self.alpha))
stderr_gamma_start(self) == self.alpha.r * (self.beta.r + self.det_coef_coint.r)
stderr_gamma_range(self, n) ==
    Slice(n, stderr_gamma_start(self), stderr_gamma_start(self) + size(self.gamma))
stderr_det_coef_range(self, n) == SliceFrom(n, 0 - size(self.det_coef))

VECMResults_stderr_alpha(self, stderr_params) ==
    LET ret_1dim == take(stderr_params,
                         stderr_alpha_range(self, Len(stderr_params)))
    IN  IF ~reshape_ok(ret_1dim, self.alpha) THEN Raised("ValueError")
        ELSE Value(reshape_F(ret_1dim, self.alpha))

VECMResults_stderr_beta(self, stderr_coint) ==
    LET ret_1dim == rows_to(stderr_coint, size(self.beta))
    IN  IF size(ret_1dim) # size(self.beta) THEN Raised("ValueError")
        ELSE Value(Est(self.beta.r, self.beta.c))

VECMResults_stderr_det_coef_coint(self, stderr_coint) ==
    LET ret_1dim == rows_from(stderr_coint, size(self.beta))
    IN  IF size(self.det_coef_coint) = 0 THEN Value(self.det_coef_coint)
        ELSE IF size(ret_1dim) # size(self.det_coef_coint)
          THEN Raised("ValueError")
        ELSE Value(Est(self.det_coef_coint.r, self.det_coef_coint.c))

VECMResults_stderr_gamma(self, stderr_params) ==
    LET ret_1dim == take(stderr_params,
                         stderr_gamma_range(self, Len(stderr_params)))
    IN  IF ~reshape_ok(ret_1dim, self.gamma) THEN Raised("ValueError")
        ELSE Value(reshape_F(ret_1dim, self.gamma))

VECMResults_stderr_det_coef(self, stderr_params) ==
    LET ret1_1dim == take(stderr_params,
                          stderr_det_coef_range(self, Len(stderr_params)))
    IN  IF size(self.det_coef) = 0 THEN Value(self.det_coef)
        ELSE IF ~reshape_ok(ret1_1dim, self.det_coef) THEN Raised("ValueError")
        ELSE Value(reshape_F(ret1_1dim, self.det_coef))

\* block / stderr_block (lines 626, 643) and the p-values of a block of
\* t-values (lines 654, 672), by shape.
tvalues_of(block, stderr) ==
    IF ~broadcast_ok(block, stderr) THEN Raised("ValueError")
    ELSE Value(broadcast(block, stderr))
pvalues_of(tvalues) == Value(Est(tvalues.r, tvalues.c))

VECMResults_tvalues_alpha(self, stderr_alpha) ==
    tvalues_of(self.alpha, stderr_alpha)

VECMResults_tvalues_beta(self, stderr_beta) ==
    LET first_rows == Est(self.r, self.r)
        last_rows == tvalues_of(rows_from(self.beta, self.r),
                                rows_from(stderr_beta, self.r))
    IN  IF ~last_rows.ok THEN last_rows
        ELSE IF ~vstack_ok(first_rows, last_rows.v) THEN Raised("ValueError")
        ELSE Value(Est(first_rows.r + last_rows.v.r, first_rows.c))

VECMResults_tvalues_det_coef_coint(self, stderr_det_coef_coint) ==
    IF size(self.det_coef_coint) = 0 THEN Value(self.det_coef_coint)
    ELSE tvalues_of(self.det_coef_coint, stderr_det_coef_coint)

VECMResults_tvalues_gamma(self, stderr_gamma) ==
    tvalues_of(self.gamma, stderr_gamma)

VECMResults_tvalues_det_coef(self, stderr_det_coef) ==
    IF size(self.det_coef) = 0 THEN Value(self.det_coef)
    ELSE tvalues_of(self.det_coef, stderr_det_coef)

VECMResults_pvalues_alpha(self, tvalues_alpha) == pvalues_of(tvalues_alpha)

VECMResults_pvalues_beta(self, tvalues_beta) ==
    LET first_rows == Est(self.r, self.r)
        tval_last == rows_from(tvalues_beta, self.r)
    IN  IF ~vstack_ok(first_rows, tval_last) THEN Raised("ValueError")
        ELSE Value(Est(first_rows.r + tval_last.r, first_rows.c))

VECMResults_pvalues_det_coef_coint(self, tvalues_det_coef_coint) ==
    IF size(self.det_coef_coint) = 0 THEN Value(self.det_coef_coint)
    ELSE pvalues_of(tvalues_det_coef_coint)

VECMResults_pvalues_gamma(self, tvalues_gamma) == pvalues_of(tvalues_gamma)

VECMResults_pvalues_det_coef(self, tvalues_det_coef) ==
    IF size(self.det_coef) = 0 THEN Value(self.det_coef)
    ELSE pvalues_of(tvalues_det_coef)

\* ------------------------------------------------------------- var_repr
\* A K-column matrix expression is a sequence of columns; a column is a
\* function giving the coefficient of each symbol: <<"pi", c>> column c of
\* alpha.dot(beta.T), <<"I", c>> column c of the identity, <<"gamma", n>>
\* column n (1-based) of self.gamma.
Symbols(self) ==
    ({"pi", "I"} \X (1..self.K)) \cup ({"gamma"} \X (1..self.gamma.c))

unit_col(self, sym) == [s \in Symbols(self) |-> IF s = sym THEN 1 ELSE 0]

pi_expr(self) == [c \in 1..(self.beta.r) |-> unit_col(self, <<"pi", c>>)]
identity_expr(self) == [c \in 1..(self.K) |-> unit_col(self, <<"I", c>>)]

\* gamma[:, a:b] and gamma[:, a:]
gamma_cols(self, idx) ==
    [c \in 1..(Len(idx)) |-> unit_col(self, <<"gamma", idx[c] + 1>>)]

expr_add(self, A, B) ==
    [c \in 1..(Len(A)) |-> [s \in Symbols(self) |-> A[c][s] + B[c][s]]]
expr_neg(self, A) ==
    [c \in 1..(Len(A)) |-> [s \in Symbols(self) |-> 0 - A[c][s]]]
expr_sub(self, A, B) == expr_add(self, A, expr_neg(self, B))

\* Mutant of VECMResults_var_repr: the intermediate matrices with the
\* blocks subtracted the other way round.
VECMResults_var_repr_swapped(self) ==
    LET K == self.K
        p == self.p
        n == self.gamma.c
        first == gamma_cols(self, SliceTo(n, K))
        last == gamma_cols(self, SliceFrom(n, K * (p - 2)))
        pi == pi_expr(self)
    IN  IF ~dot_ok(self.alpha, EstT(self.beta)) THEN Raised("ValueError")
        ELSE IF Len(pi) # K \/ Len(first) # K \/ Len(last) # K
          THEN Raised("ValueError")
        ELSE IF \E i \in 1..(p - 2) :
                   \/ Len(Slice(n, K * i, K * (i + 1))) # K
                   \/ Len(Slice(n, K * (i - 1), K * i)) # K
          THEN Raised("ValueError")
        ELSE Value([i \in 1..p |->
               IF i = 1
                 THEN expr_add(self, expr_add(self, pi, identity_expr(self)), first)
               ELSE IF i = p THEN expr_neg(self, last)
               ELSE expr_sub(self,
                      gamma_cols(self, Slice(n, K * (i - 2), K * (i - 1))),
                      gamma_cols(self, Slice(n, K * (i - 1), K * i)))])

\* Lines 683-692.  A[i] of the code is entry i + 1 of the value; an
\* assignment of a matrix that is not K x K raises ValueError.
VECMResults_var_repr(self) ==
    LET K == self.K
        p == self.p
        n == self.gamma.c
        first == gamma_cols(self, SliceTo(n, K))
        last == gamma_cols(self, SliceFrom(n, K * (p - 2)))
        pi == pi_expr(self)
    IN  IF ~dot_ok(self.alpha, EstT(self.beta)) THEN Raised("ValueError")
        ELSE IF Len(pi) # K \/ Len(first) # K \/ Len(last) # K
          THEN Raised("ValueError")
        ELSE IF \E i \in 1..(p - 2) :
                   \/ Len(Slice(n, K * i, K * (i + 1))) # K
                   \/ Len(Slice(n, K * (i - 1), K * i)) # K
          THEN Raised("ValueError")
        ELSE Value([i \in 1..p |->
               IF i = 1
                 THEN expr_add(self, expr_add(self, pi, identity_expr(self)), first)
               ELSE IF i = p THEN expr_neg(self, last)
               ELSE expr_sub(self,
                      gamma_cols(self, Slice(n, K * (i - 1), K * i)),
                      gamma_cols(self, Slice(n, K * (i - 2), K * (i - 1))))])

\* ------------------------------------------------------- cache_readonly
Attrs ==
    {"llf", "num_det_coef_coint", "cov_params", "stderr_params",
     "stderr_coint", "stderr_alpha", "stderr_beta", "stderr_det_coef_coint",
     "stderr_gamma", "stderr_det_coef", "tvalues_alpha", "tvalues_beta",
     "tvalues_det_coef_coint", "tvalues_gamma", "tvalues_det_coef",
     "pvalues_alpha", "pvalues_beta", "pvalues_det_coef_coint",
     "pvalues_gamma", "pvalues_det_coef", "var_repr"}

\* Mutant of reads_attr: the deterministic blocks read the attribute they
\* are derived from even when they are empty.
reads_attr_unguarded(self, a) ==
    CASE a = "cov_params" -> "num_det_coef_coint"
      [] a = "stderr_params" -> "cov_params"
      [] a \in {"stderr_alpha", "stderr_gamma", "stderr_det_coef"} -> "stderr_params"
      [] a \in {"stderr_beta", "stderr_det_coef_coint"} -> "stderr_coint"
      [] a = "tvalues_alpha" -> "stderr_alpha"
      [] a = "tvalues_beta" -> "stderr_beta"
      [] a = "tvalues_det_coef_coint" -> "stderr_det_coef_coint"
      [] a = "tvalues_gamma" -> "stderr_gamma"
      [] a = "tvalues_det_coef" -> "stderr_det_coef"
      [] a = "pvalues_alpha" -> "tvalues_alpha"
      [] a = "pvalues_beta" -> "tvalues_beta"
      [] a = "pvalues_det_coef_coint" -> "tvalues_det_coef_coint"
      [] a = "pvalues_gamma" -> "tvalues_gamma"
      [] a = "pvalues_det_coef" -> "tvalues_det_coef"
      [] OTHER -> "none"

\* The cached attribute that the body of attribute a reads on self, "none"
\* if it reads none: the bodies of the deterministic blocks return before
\* reading anything when the block is empty (lines 603, 617, 637, 647,
\* 666, 676).
reads_attr(self, a) ==
    CASE a = "cov_params" -> "num_det_coef_coint"
      [] a = "stderr_params" -> "cov_params"
      [] a \in {"stderr_alpha", "stderr_gamma"} -> "stderr_params"
      [] a = "stderr_det_coef" ->
           IF size(self.det_coef) = 0 THEN "none" ELSE "stderr_params"
      [] a = "stderr_beta" -> "stderr_coint"
      [] a = "stderr_det_coef_coint" ->
           IF size(self.det_coef_coint) = 0 THEN "none" ELSE "stderr_coint"
      [] a = "tvalues_alpha" -> "stderr_alpha"
      [] a = "tvalues_beta" -> "stderr_beta"
      [] a = "tvalues_det_coef_coint" ->
           IF size(self.det_coef_coint) = 0 THEN "none"
           ELSE "stderr_det_coef_coint"
      [] a = "tvalues_gamma" -> "stderr_gamma"
      [] a = "tvalues_det_coef" ->
           IF size(self.det_coef) = 0 THEN "none" ELSE "stderr_det_coef"
      [] a = "pvalues_alpha" -> "tvalues_alpha"
      [] a = "pvalues_beta" -> "tvalues_beta"
      [] a = "pvalues_det_coef_coint" ->
           IF size(self.det_coef_coint) = 0 THEN "none"
           ELSE "tvalues_det_coef_coint"
      [] a = "pvalues_gamma" -> "tvalues_gamma"
      [] a = "pvalues_det_coef" ->
           IF size(self.det_coef) = 0 THEN "none" ELSE "tvalues_det_coef"
      [] OTHER -> "none"

\* The body of attribute a, given the value dep of the attribute it reads.
fget(self, a, dep, num) ==
    CASE a = "llf" -> Value(VECMResults_llf(self))
      [] a = "num_det_coef_coint" -> VECMResults_num_det_coef_coint(self)
      [] a = "cov_params" -> VECMResults_cov_params(self, dep, num)
      [] a = "stderr_params" -> VECMResults_stderr_params(self, dep)
      [] a = "stderr_coint" -> VECMResults_stderr_coint(self, num)
      [] a = "stderr_alpha" -> VECMResults_stderr_alpha(self, dep)
      [] a = "stderr_beta" -> VECMResults_stderr_beta(self, dep)
      [] a = "stderr_det_coef_coint" -> VECMResults_stderr_det_coef_coint(self, dep)
      [] a = "stderr_gamma" -> VECMResults_stderr_gamma(self, dep)
      [] a = "stderr_det_coef" -> VECMResults_stderr_det_coef(self, dep)
      [] a = "tvalues_alpha" -> VECMResults_tvalues_alpha(self, dep)
      [] a = "tvalues_beta" -> VECMResults_tvalues_beta(self, dep)
      [] a = "tvalues_det_coef_coint" -> VECMResults_tvalues_det_coef_coint(self, dep)
      [] a = "tvalues_gamma" -> VECMResults_tvalues_gamma(self, dep)
      [] a = "tvalues_det_coef" -> VECMResults_tvalues_det_coef(self, dep)
      [] a = "pvalues_alpha" -> VECMResults_pvalues_alpha(self, dep)
      [] a = "pvalues_beta" -> VECMResults_pvalues_beta(self, dep)
      [] a = "pvalues_det_coef_coint" -> VECMResults_pvalues_det_coef_coint(self, dep)
      [] a = "pvalues_gamma" -> VECMResults_pvalues_gamma(self, dep)
      [] a = "pvalues_det_coef" -> VECMResults_pvalues_det_coef(self, dep)
      [] a = "var_repr" -> VECMResults_var_repr(self)

\* The state of one results object's cache is st = [c, runs]: c maps the
\* cached attributes to their values, runs records for every attribute
\* whose body has run how often it ran (n) and the exception its last run
\* ended with ("" if it returned).
ran(runs, a, exc) ==
    [b \in DOMAIN runs \cup {a} |->
       IF b = a
       THEN [n |-> (IF a \in DOMAIN runs THEN runs[a].n ELSE 0) + 1, exc |-> exc]
       ELSE runs[b]]

\* Mutant of stored: the value is returned but not kept.
stored_nowhere(a, st, o) ==
    [st |-> [c |-> st.c, runs |-> ran(st.runs, a, IF o.ok THEN "" ELSE o.exc)],
     out |-> o]

\* The body of a returned or raised o: a returned value is kept in the
\* cache, an exception leaves the cache as it is.
stored(a, st, o) ==
    [st |-> [c |-> IF o.ok THEN [b \in DOMAIN st.c \cup {a} |->
                                   IF b = a THEN o.v ELSE st.c[b]]
                   ELSE st.c,
             runs |-> ran(st.runs, a, IF o.ok THEN "" ELSE o.exc)],
     out |-> o]

\* The body of a after its read of another attribute ended as d: an
\* exception of that read leaves the body, too.
computed(self, num, a, d) ==
    IF ~d.out.ok
    THEN [st |-> [c |-> d.st.c, runs |-> ran(d.st.runs, a, d.out.exc)],
          out |-> d.out]
    ELSE CHOOSE res \in {stored(a, d.st, o) : o \in {fget(self, a, d.out.v, num)}} : TRUE

\* Reading attribute a of self: the cached value if there is one, else
\* what the body computes.
RECURSIVE cache_readonly(_, _, _, _)
cache_readonly(self, num, st, a) ==
    IF a \in DOMAIN st.c THEN [st |-> st, out |-> Value(st.c[a])]
    ELSE CHOOSE res \in
           {computed(self, num, a, d) :
              d \in {IF reads_attr(self, a) = "none"
                     THEN [st |-> st, out |-> Value(<< >>)]
                     ELSE cache_readonly(self, num, st, reads_attr(self, a))}} : TRUE

\* VECMResults.__init__ called without the three builder matrices: the
\* else branch of lines 513-515.
VECMResults_init_default(endog_tot, level_var_lag_order, coint_rank, alpha, beta, gamma, sigma_u, deterministic) ==
    LET K == endog_tot.r
        p == level_var_lag_order
        bs == vsplit(beta, K)
        gs == hsplit(gamma, K * (p - 1))
    IN  CHOOSE res \in
          {IF ~em.ok THEN em
           ELSE Returned("VECMResults",
                  [y_all |-> endog_tot, K |-> K, p |-> p,
                   deterministic |-> deterministic, r |-> coint_rank,
                   alpha |-> alpha, beta |-> bs[1], det_coef_coint |-> bs[2],
                   gamma |-> gs[1], det_coef |-> gs[2], sigma_u |-> sigma_u,
                   delta_y_1_T |-> em.delta_y_1_T, y_min1 |-> em.y_min1,
                   delta_x |-> em.delta_x, T |-> em.y_min1.c]) :
             em \in {_endog_matrices(endog_tot, level_var_lag_order, deterministic)}} : TRUE

\* ------------------------------------- normalisation of beta (line 370)
\* beta_tilde = np.dot(beta_tilde, inv(beta_tilde[:r])) is computed in
\* numpy's float64: a significand of MantBits bits, every operation
\* rounded to nearest, ties to even.  For r = 1 and a leading entry
\* beta_tilde[0, 0] = b the new leading entry is fl(b * fl(1 / b)).
\* For a whole number b with 2^k <= b < 2^(k+1) both roundings are decided
\* by rem = 2^(MantBits + k) mod b:
\*   fl(1 / b) = q * 2^-(MantBits + k), q the integer nearest to 2^(MantBits + k) / b
\*   (the quotient rounded down iff 2 * rem < b; no tie unless rem = 0);
\*   rounded down, b * q = 2^(MantBits + k) - rem, which rounds to
\*   2^(MantBits + k) (the value 1.0) iff 2 * rem <= 2^k and otherwise to the
\*   float below 1.0; rounded up, b * q = 2^(MantBits + k) + (b - rem)
\*   with b - rem < 2^k, which rounds to 1.0.
MantBits == 53

RECURSIVE ilog2(_)
ilog2(b) == IF b < 2 THEN 0 ELSE 1 + ilog2(b \div 2)

RECURSIVE pow2(_)
pow2(n) == IF n = 0 THEN 1 ELSE 2 * pow2(n - 1)

\* 2^n mod m.
RECURSIVE pow2_mod(_, _)
pow2_mod(n, m) == IF n = 0 THEN 1 % m ELSE (2 * pow2_mod(n - 1, m)) % m

\* The leading entry of the normalised beta minus 1, in units of
\* 2^-MantBits (0: exactly 1.0; -1: the float below 1.0).
normalized_lead(b) ==
    LET k == ilog2(b)
        rem == pow2_mod(MantBits + k, b)
    IN  IF 2 * rem < b /\ 2 * rem > pow2(k) THEN 0 - 1 ELSE 0

\* ---------------------------------------------------------------- state
VARIABLES
    b_endog,      \* builder call: the argument endog_tot
    b_lags,       \* builder call: the argument diff_lags
    b_det,        \* builder call: the argument deterministic
    b_pc,         \* builder call: "idle", "call" before, "done" after
    b_ret,        \* builder call: what _endog_matrices returned or raised
    vecm,         \* the VECM model object (NoModel before construction)
    call,         \* the last call made: its name and arguments
    ret,          \* what the last call returned or raised
    cache,        \* the results object's cache of derived attributes
    norm,         \* normalisation of beta: the leading entry before and after
    runs,         \* per attribute of the results object: the runs of its body
    reads,        \* the number of attribute reads made on the results object
    num,          \* what the data decides in the inversions after the fit
    res2          \* a results container built again without the matrices

bvars == <<b_endog, b_lags, b_det, b_pc, b_ret>>
mvars == <<vecm, call, ret, cache, res2>>
avars == <<runs, reads, num>>
xvars == <<norm, runs, reads, num>>
vars == <<b_endog, b_lags, b_det, b_pc, b_ret, vecm, call, ret, cache, norm, runs, reads, num, res2>>

NoRet == [ok |-> FALSE, exc |-> "not called", args |-> << >>]
NoCall == [name |-> "none"]
EmptyCache == [a \in {} |-> 0]

BuilderIdle ==
    /\ b_endog = Series(0, 0, 0)
    /\ b_lags = 0
    /\ b_det = {}
    /\ b_pc = "idle"
    /\ b_ret = NoRet

ModelIdle ==
    /\ vecm = NoModel
    /\ call = NoCall
    /\ ret = NoRet
    /\ cache = EmptyCache
    /\ res2 = None

NormIdle == norm = [pc |-> "idle", b |-> 0, lead |-> 0]

NoNum == [omega_singular |-> FALSE, coint_singular |-> FALSE]

AccessIdle ==
    /\ runs = EmptyCache
    /\ reads = 0
    /\ num = NoNum

\* ------------------------------------------- specification of the builder
BuilderInit ==
    /\ b_endog \in {Series(K, N, curv) : K \in 1..MaxK, N \in 1..MaxN, curv \in 0..MaxCurv}
    /\ b_lags \in 0..MaxLags
    /\ b_det \in DetSpecs
    /\ b_pc = "call"
    /\ b_ret = NoRet
    /\ ModelIdle
    /\ NormIdle
    /\ AccessIdle

CallEndogMatrices ==
    /\ b_pc = "call"
    /\ b_ret' = _endog_matrices(b_endog, b_lags, b_det)
    /\ b_pc' = "done"
    /\ UNCHANGED <<b_endog, b_lags, b_det>>
    /\ UNCHANGED mvars
    /\ UNCHANGED xvars

BuilderNext == CallEndogMatrices

BuilderSpec == BuilderInit /\ [][BuilderNext]_vars

\* --------------------------------------- specification of the model object
\* The arrays handed to the constructor: nobs x neqs, or 1-dimensional.
Endogs ==
    {[ndim |-> 2, m |-> Transpose(Series(K, N, 1))] : K \in 1..MaxK, N \in 1..MaxNobs}
    \cup {[ndim |-> 1, m |-> Transpose(Series(1, N, 1))] : N \in 1..MaxNobs}

EigOrders(n) ==
    {f \in [1..n -> 1..n] : \A i, j \in 1..n : f[i] = f[j] => i = j}

\* The environments that can differ in their effect on a fit.
Envs(self, method, deterministic) ==
    IF method = "ml"
    THEN {[singular |-> TRUE, lambd |-> << >>]} \cup
         {[singular |-> FALSE, lambd |-> o] :
             o \in EigOrders(self.neqs + (IF "cc" \in deterministic THEN 1 ELSE 0))}
    ELSE {[singular |-> sg, lambd |-> << >>] : sg \in BOOLEAN}

Init ==
    /\ BuilderIdle
    /\ ModelIdle
    /\ NormIdle
    /\ AccessIdle

Construct ==
    /\ ~vecm.exists
    /\ \E endog_tot \in Endogs :
         \E out \in {VECM_init(endog_tot)} :
             /\ vecm' = out.self
             /\ ret' = out.ret
             /\ call' = [name |-> "VECM", endog_tot |-> endog_tot]
    /\ UNCHANGED <<cache, res2>>
    /\ UNCHANGED bvars
    /\ UNCHANGED xvars

\* One call of fit on the model object.  The caller holds one returned
\* object (or caught exception) at a time: it is released (Release) before
\* the next call.
Fit ==
    /\ vecm.exists
    /\ call.name \in {"VECM", "del"}
    /\ \E diff_lags \in {None} \cup {Some(n) : n \in 0..MaxLags},
          method \in {"ls", "egls", "ml", "gls"},
          deterministic \in DetSpecs,
          coint_rank \in {None} \cup {Some(n) : n \in 1..vecm.neqs} :
         \E env \in Envs(vecm, method, deterministic) :
           \E out \in {VECM_fit(vecm, diff_lags, method, deterministic,
                                coint_rank, env)} :
               /\ vecm' = out.self
               /\ ret' = out.ret
               /\ call' = [name |-> "fit", diff_lags |-> diff_lags,
                           method |-> method,
                           deterministic |-> deterministic,
                           coint_rank |-> coint_rank]
    /\ cache' = EmptyCache
    /\ res2' = None
    /\ UNCHANGED bvars
    /\ UNCHANGED xvars

\* Reading results.llf (a cache_readonly attribute).
Get_llf ==
    /\ ret.ok /\ ret.kind = "VECMResults"
    /\ "llf" \notin DOMAIN cache
    /\ cache' = [a \in DOMAIN cache \cup {"llf"} |->
                   IF a = "llf" THEN VECMResults_llf(ret.value) ELSE cache[a]]
    /\ UNCHANGED <<vecm, call, ret, res2>>
    /\ UNCHANGED bvars
    /\ UNCHANGED xvars

\* The caller drops what the last fit returned or raised.
Release ==
    /\ call.name = "fit"
    /\ call' = [name |-> "del"]
    /\ ret' = NoRet
    /\ cache' = EmptyCache
    /\ res2' = None
    /\ UNCHANGED vecm
    /\ UNCHANGED bvars
    /\ UNCHANGED xvars

\* The caller builds a results container from the estimates of the one
\* fit returned, leaving the builder matrices out.
Rebuild ==
    /\ ret.ok /\ ret.kind = "VECMResults"
    /\ res2 = None
    /\ res2' = Some(VECMResults_init_default(
                      ret.value.y_all, ret.value.p, ret.value.r,
                      ret.value.alpha,
                      Est(ret.value.beta.r + ret.value.det_coef_coint.r, ret.value.beta.c),
                      Est(ret.value.gamma.r, ret.value.gamma.c + ret.value.det_coef.c),
                      ret.value.sigma_u, ret.value.deterministic))
    /\ UNCHANGED <<vecm, call, ret, cache>>
    /\ UNCHANGED bvars
    /\ UNCHANGED xvars

Next == Construct \/ Fit \/ Get_llf \/ Release \/ Rebuild

Spec == Init /\ [][Next]_vars

\* ------------------------------- specification of the normalisation of beta
\* The ML estimator with r = 1 on data whose unnormalised beta_tilde has
\* the leading entry b, a whole number held exactly by a float64.
NormInit ==
    /\ norm \in {[pc |-> "call", b |-> b, lead |-> 0] : b \in 1..MaxLead}
    /\ BuilderIdle
    /\ ModelIdle
    /\ AccessIdle

Normalize ==
    /\ norm.pc = "call"
    /\ norm' = [pc |-> "done", b |-> norm.b, lead |-> normalized_lead(norm.b)]
    /\ UNCHANGED bvars
    /\ UNCHANGED mvars
    /\ UNCHANGED avars

NormNext == Normalize

NormSpec == NormInit /\ [][NormNext]_vars

\* ------------------------------------ specification of the results object
\* A results object as fit(method='ml') returns it for a series of MaxK
\* variables and MaxNobs observations, read up to MaxReads times.  The
\* eigenvalues are taken in descending order.  The inversions of
\* cov_params and those of stderr_coint feed disjoint sets of attributes,
\* so their outcomes are drawn together: all succeed or all fail.
ResultsObjects ==
    {VECM_fit(VECM_init([ndim |-> 2, m |-> Transpose(Series(MaxK, MaxNobs, 1))]).self,
              Some(lags), "ml", deterministic, Some(rank),
              [singular |-> FALSE,
               lambd |-> [i \in 1..(MaxK + (IF "cc" \in deterministic THEN 1 ELSE 0)) |-> i]])
       @@ [call |-> [name |-> "fit", diff_lags |-> Some(lags), method |-> "ml",
                     deterministic |-> deterministic, coint_rank |-> Some(rank)]] :
       lags \in 1..MaxLags, deterministic \in DetSpecs, rank \in 1..MaxK}

ResultsInit ==
    /\ \E out \in ResultsObjects :
         /\ out.ret.ok
         /\ vecm = out.self
         /\ ret = out.ret
         /\ call = out.call
    /\ cache = EmptyCache
    /\ res2 = None
    /\ runs = EmptyCache
    /\ reads = 0
    /\ num \in {[omega_singular |-> sg, coint_singular |-> sg] : sg \in BOOLEAN}
    /\ BuilderIdle
    /\ NormIdle

\* One read of attribute a of the results object.
Access(a) ==
    /\ ret.ok /\ ret.kind = "VECMResults"
    /\ reads < MaxReads
    /\ \E got \in {cache_readonly(ret.value, num, [c |-> cache, runs |-> runs], a)} :
         /\ cache' = got.st.c
         /\ runs' = got.st.runs
    /\ reads' = reads + 1
    /\ UNCHANGED <<vecm, call, ret, res2, num, norm>>
    /\ UNCHANGED bvars

ResultsNext == \E a \in Attrs : Access(a)

ResultsSpec == ResultsInit /\ [][ResultsNext]_vars

\* =================================================================== claims
\* ------------------------------------------------- builder call, in words
b_K == b_endog.r
b_N == b_endog.c
b_T == b_N - b_lags - 1
Ind(term) == IF term \in b_det THEN 1 ELSE 0
b_returned == b_pc = "done" /\ b_ret.ok
b_raised == b_pc = "done" /\ ~b_ret.ok
\* Row i (1-based) of M as a sequence.
Row(M, i) == M.d[i]

\* C5: for lags >= 1, lags+1 < N and any deterministic specification (with
\* at least 4 effective observations when seasonal terms are requested) the
\* builder returns four matrices with T = N - lags - 1 columns each; the
\* level and differenced-level matrices have K rows, the lagged-level
\* matrix K rows plus one iff 'cc', the differenced-regressor matrix
\* K*lags rows plus 1 for 'co', 3 for 's', 1 for 'lt', stacked in the order
\* lagged differences, constant, seasonal rows, trend.
C5_BuilderShapes ==
    (b_pc = "done" /\ b_lags >= 1 /\ b_lags + 1 < b_N
       /\ ("s" \in b_det => b_T >= 4))
    => /\ b_ret.ok
       /\ Shape(b_ret.y_1_T) = <<b_K, b_T>>
       /\ Shape(b_ret.delta_y_1_T) = <<b_K, b_T>>
       /\ Shape(b_ret.y_min1) = <<b_K + Ind("cc"), b_T>>
       /\ Shape(b_ret.delta_x) =
            <<b_K * b_lags + Ind("co") + 3 * Ind("s") + Ind("lt"), b_T>>
       /\ "cc" \in b_det =>
            Row(b_ret.y_min1, b_K + 1) = [j \in 1..b_T |-> Real(1)]
       /\ "co" \in b_det =>
            Row(b_ret.delta_x, b_K * b_lags + 1) = [j \in 1..b_T |-> Real(1)]
       /\ "s" \in b_det =>
            \A i \in 1..3 : \A j \in 1..b_T :
               Row(b_ret.delta_x, b_K * b_lags + Ind("co") + i)[j]
                  \in {Real(1) - 1, Real(0) - 1}
       /\ "lt" \in b_det =>
            Row(b_ret.delta_x, b_K * b_lags + Ind("co") + 3 * Ind("s") + 1)
               = [j \in 1..b_T |-> Real(j)]

C5_Witness ==
    /\ b_returned /\ b_lags >= 1 /\ b_T >= 4
    /\ b_det = {"cc", "co", "s", "lt"}
    /\ b_ret.delta_x.r = b_K * b_lags + 5

\* C6: the builder accepts lags = 0: for N >= 2 it returns the four
\* matrices with T = N - 1 columns and a differenced-regressor matrix
\* holding only the requested deterministic rows.
C6_ZeroLagsAccepted ==
    (b_pc = "done" /\ b_lags = 0 /\ b_N >= 2
       /\ ("s" \in b_det => b_T >= 4))
    => /\ b_ret.ok
       /\ b_ret.y_1_T.c = b_N - 1
       /\ Shape(b_ret.delta_x) =
            <<Ind("co") + 3 * Ind("s") + Ind("lt"), b_N - 1>>

\* C7: the builder fails whenever lags+1 >= N (no effective observation
\* is left) and never returns matrices with zero columns.
C7_DegenerateSampleFails ==
    /\ (b_pc = "done" /\ b_lags + 1 >= b_N) => ~b_ret.ok
    /\ b_returned => b_ret.y_1_T.c > 0

\* C8: with seasonal terms and T >= 4 the differenced-regressor matrix
\* gains exactly 3 rows; row i (0-based) holds 1 - 1/4 exactly in the
\* columns c (0-based) with (c+1) mod 4 = i and -1/4 elsewhere, over all T
\* columns, so every window of 4 consecutive columns sums to zero.
SeasonRow(i) == Row(b_ret.delta_x, b_K * b_lags + Ind("co") + i + 1)
C8_SeasonalRows ==
    (b_returned /\ "s" \in b_det /\ b_T >= 4)
    => /\ b_ret.delta_x.r = b_K * b_lags + Ind("co") + 3 + Ind("lt")
       /\ \A i \in 0..2 : \A c \in 0..(b_T - 1) :
             SeasonRow(i)[c + 1] =
                IF (c + 1) % 4 = i THEN Real(1) - (Real(1) \div 4)
                                   ELSE Real(0) - (Real(1) \div 4)
       /\ \A i \in 0..2 : \A c \in 0..(b_T - 4) :
             SeasonRow(i)[c + 1] + SeasonRow(i)[c + 2]
               + SeasonRow(i)[c + 3] + SeasonRow(i)[c + 4] = 0

C8_Witness ==
    /\ b_returned /\ "s" \in b_det /\ b_T >= 5
    /\ SeasonRow(1)[1] = Real(1) - 1
    /\ SeasonRow(1)[5] = Real(1) - 1

\* ---------------------------------------------------- fit call, in words
fit_called == call.name = "fit"
fit_returned == fit_called /\ ret.ok
fit_raised == fit_called /\ ~ret.ok
HasTerm(term) == IF term \in call.deterministic THEN 1 ELSE 0

\* C1: fit returns a results object (VECMResults) for method 'ml' and for
\* method 'egls', and for 'ls' a plain mapping with exactly the three
\* entries Pi, Gamma and Sigma_u.
C1_FitReturnKinds ==
    fit_returned =>
       /\ call.method \in {"ml", "egls"} => ret.kind = "VECMResults"
       /\ call.method = "ls" =>
            /\ ret.kind = "dict"
            /\ DOMAIN ret.value = {"Pi_hat", "Gamma_hat", "Sigma_u_hat"}

\* C2: every call of fit with a method outside 'ls', 'egls', 'ml' raises
\* ValueError with a message naming the allowed set, whatever the other
\* arguments are, the lag count left at its default included.
C2_BadMethodValueError ==
    (fit_called /\ call.method \notin {"ls", "egls", "ml"})
    => /\ ~ret.ok
       /\ ret.exc = "ValueError"
       /\ \E k \in DOMAIN ret.args : ret.args[k] = <<"ls", "egls", "ml">>

\* C3: a call of fit that fails leaves the model object exactly as it was
\* before the call (its stored lag order p in particular).
C3_FailedFitKeepsModel ==
    [][(call.name # "fit" /\ call'.name = "fit" /\ ~ret'.ok)
         => vecm' = vecm]_vars

C9_ResultsPartition ==
    (fit_returned /\ call.method = "ml")
    => /\ ret.kind = "VECMResults"
       /\ ret.value.beta.r = vecm.neqs
       /\ ret.value.det_coef_coint.r = HasTerm("cc")
       /\ ret.value.gamma.c = vecm.neqs * call.diff_lags[1]
       /\ ret.value.det_coef.c =
            HasTerm("co") + 3 * HasTerm("s") + HasTerm("lt")
       /\ ret.value.det_coef.c = ret.value.delta_x.r - ret.value.gamma.c

C9_Witness ==
    /\ fit_returned /\ call.method = "ml"
    /\ call.deterministic = {"co", "lt"}
    /\ ret.value.det_coef.c = 2
    /\ ret.value.gamma.c = vecm.neqs * call.diff_lags[1]
    /\ ret.value.gamma.c > 0

\* C10: the eigenpairs the ML path uses are those of the r largest
\* eigenvalues, in whatever order the eigen-decomposition returns them:
\* beta is formed from the eigenvectors of the r largest eigenvalues and
\* the log-likelihood sums log(1 - eigenvalue) over the same r largest.
Range(seq) == {seq[i] : i \in DOMAIN seq}
C10_LargestEigenpairs ==
    (fit_returned /\ call.method = "ml")
    => /\ Range(ret.value.beta_eig) = 1..ret.value.r
       /\ "llf" \in DOMAIN cache =>
             Range(cache["llf"].log_terms) = 1..ret.value.r

\* C11: for every valid rank, lag count and deterministic specification the
\* beta returned by the ML estimator has a leading r x r block equal to the
\* identity matrix exactly; here for r = 1: the leading entry is 1.0.
C11_LeadingBlockIdentity == norm.pc = "done" => norm.lead = 0

\* C16: for lags >= 1, every column j of the differenced-regressor matrix
\* and every i in 1..lags, rows K*(i-1) .. K*i-1 of that column are the
\* first difference of the series i periods before the period of column j
\* of the differenced-level matrix: with 0-based column j and p = lags + 1,
\* delta_y_1_T[:, j] = y[:, p+j] - y[:, p+j-1] and block i of
\* delta_x[:, j] is y[:, p+j-i] - y[:, p+j-i-1].
C16_LagsMostRecentFirst ==
    (b_returned /\ b_lags >= 1) =>
      \A j \in 1..b_ret.delta_x.c, k \in 1..b_K :
        /\ b_ret.delta_y_1_T.d[k][j]
             = b_endog.d[k][b_lags + 1 + j] - b_endog.d[k][b_lags + j]
        /\ \A i \in 1..b_lags :
             b_ret.delta_x.d[b_K * (i - 1) + k][j]
               = b_endog.d[k][b_lags + 1 + j - i] - b_endog.d[k][b_lags + j - i]

C16_Witness ==
    /\ b_returned
    /\ b_endog = Series(2, 6, 1)
    /\ b_lags = 2
    /\ b_ret.delta_x.c = 3

\* C17: for every deterministic specification the least-squares estimator
\* splits the jointly estimated coefficient matrix so that Pi has as many
\* columns as the builder's lagged-level matrix has rows and Gamma as many
\* as the differenced-regressor matrix has rows, and the residual is
\* well-formed: whenever the builder returns matrices for lags >= 1, fit
\* with method 'ls' raises no ValueError, and what it returns is split so.
C17_LsSplitMatchesBuilder ==
    (/\ fit_called
     /\ call.method = "ls"
     /\ call.diff_lags # None
     /\ call.diff_lags[1] >= 1
     /\ _endog_matrices(vecm.y, call.diff_lags[1], call.deterministic).ok) =>
      /\ ret.ok \/ ret.exc # "ValueError"
      /\ ret.ok =>
           /\ ret.value.Pi_hat.c
                = _endog_matrices(vecm.y, call.diff_lags[1], call.deterministic).y_min1.r
           /\ ret.value.Gamma_hat.c
                = _endog_matrices(vecm.y, call.diff_lags[1], call.deterministic).delta_x.r

\* --------------------------------------------- results object, in words
results_held == ret.ok /\ ret.kind = "VECMResults"
\* The body of attribute a has run / its last run raised exc.
has_run(a) == a \in DOMAIN runs
has_raised(a, exc) == a \in DOMAIN runs /\ runs[a].exc = exc
cached(a) == a \in DOMAIN cache
SameShape(A, B) == A.r = B.r /\ A.c = B.c

\* C12: whenever det_coef or det_coef_coint of a results object has size
\* zero, its standard errors, t-values and p-values are size-zero arrays
\* too and reading them never raises, in any order of reads.
C12_ZeroSizeBlocks ==
    results_held =>
      /\ size(ret.value.det_coef) = 0 =>
           \A a \in {"stderr_det_coef", "tvalues_det_coef", "pvalues_det_coef"} :
             has_run(a) => /\ runs[a].exc = ""
                           /\ cached(a)
                           /\ size(cache[a]) = 0
      /\ size(ret.value.det_coef_coint) = 0 =>
           \A a \in {"stderr_det_coef_coint", "tvalues_det_coef_coint",
                     "pvalues_det_coef_coint"} :
             has_run(a) => /\ runs[a].exc = ""
                           /\ cached(a)
                           /\ size(cache[a]) = 0

C12_Witness ==
    /\ results_held
    /\ size(ret.value.det_coef) = 0
    /\ size(ret.value.det_coef_coint) = 0
    /\ num.omega_singular /\ num.coint_singular
    /\ cached("pvalues_det_coef")
    /\ cached("tvalues_det_coef_coint")

\* C13: for p >= 2 var_repr returns p matrices A_1..A_p of K columns with
\* A_1 = alpha*beta' + I + Gamma_1, A_i = Gamma_i - Gamma_(i-1) for
\* 1 < i < p and A_p = -Gamma_(p-1), Gamma_j the j-th K-column block of
\* gamma; so A_1 + ... + A_p - I = alpha*beta' and
\* Gamma_i = -(A_(i+1) + ... + A_p).
GammaBlock(self, j) ==
    [c \in 1..(self.K) |-> unit_col(self, <<"gamma", self.K * (j - 1) + c>>)]
PiMatrix(self) == [c \in 1..(self.K) |-> unit_col(self, <<"pi", c>>)]
IdMatrix(self) == [c \in 1..(self.K) |-> unit_col(self, <<"I", c>>)]
ZeroMatrix(self) == [c \in 1..(self.K) |-> [s \in Symbols(self) |-> 0]]
\* A[from] + ... + A[to]
RECURSIVE SumFrom(_, _, _, _)
SumFrom(self, A, from, to) ==
    IF from > to THEN ZeroMatrix(self)
    ELSE expr_add(self, A[from], SumFrom(self, A, from + 1, to))

C13_VarReprRelation ==
    (results_held /\ ret.value.p >= 2 /\ has_run("var_repr")) =>
      /\ cached("var_repr")
      /\ LET self == ret.value
             p == self.p
             A == cache["var_repr"]
         IN  /\ Len(A) = p
             /\ \A i \in 1..p : Len(A[i]) = self.K
             /\ A[1] = expr_add(self, expr_add(self, PiMatrix(self), IdMatrix(self)),
                                GammaBlock(self, 1))
             /\ \A i \in 2..(p - 1) :
                  A[i] = expr_sub(self, GammaBlock(self, i), GammaBlock(self, i - 1))
             /\ A[p] = expr_neg(self, GammaBlock(self, p - 1))
             /\ expr_sub(self, SumFrom(self, A, 1, p), IdMatrix(self)) = PiMatrix(self)
             /\ \A i \in 1..(p - 1) :
                  GammaBlock(self, i) = expr_neg(self, SumFrom(self, A, i + 1, p))

C13_Witness ==
    /\ results_held
    /\ ret.value.p = 3
    /\ ret.value.K = 2
    /\ cached("var_repr")

\* C14: each derived attribute's computation runs to completion at most
\* once; every later read returns the value of that computation; and the
\* value is the one a first read of a fresh object gives, whatever was read
\* before.
C14_ComputedOnce ==
    results_held =>
      \A a \in DOMAIN runs :
        runs[a].exc = "" =>
          /\ cached(a)
          /\ runs[a].n = 1
          /\ cache[a] = cache_readonly(ret.value, num,
                                       [c |-> EmptyCache, runs |-> EmptyCache], a).out.v

C14_CacheKept ==
    ret' = ret =>
      \A a \in DOMAIN cache :
        /\ a \in DOMAIN cache'
        /\ cache'[a] = cache[a]
        /\ runs'[a] = runs[a]

SourceSlice(a) ==
    LET sp == cache["stderr_params"]
    IN  take(sp, CASE a = "stderr_alpha" -> stderr_alpha_range(ret.value, Len(sp))
                   [] a = "stderr_gamma" -> stderr_gamma_range(ret.value, Len(sp))
                   [] a = "stderr_det_coef" -> stderr_det_coef_range(ret.value, Len(sp)))

C15_ColumnMajorBlocks ==
    results_held =>
      \A a \in {"stderr_alpha", "stderr_gamma", "stderr_det_coef"} :
        (cached(a) /\ size(cache[a]) > 0) =>
          /\ cached("stderr_params")
          /\ \A i \in 1..cache[a].r, j \in 1..cache[a].c :
               cache[a].d[i][j] = SourceSlice(a)[(i - 1) + (j - 1) * cache[a].r + 1]

C15_Witness ==
    /\ results_held
    /\ cached("stderr_gamma") /\ cached("stderr_det_coef")
    /\ cache["stderr_gamma"].r >= 2 /\ cache["stderr_gamma"].c >= 4
    /\ cache["stderr_det_coef"].r >= 2 /\ cache["stderr_det_coef"].c >= 2

\* C18: for every rank 1 <= r <= K and every deterministic specification,
\* stderr_coint has shape (K + num_det_coef_coint) x r, stderr_beta the
\* shape K x r of beta, stderr_det_coef_coint the shape of det_coef_coint,
\* and computing them never fails on a shape mismatch.
C18_CointStderrShapes ==
    results_held =>
      /\ ~has_raised("stderr_coint", "ValueError")
      /\ ~has_raised("stderr_beta", "ValueError")
      /\ ~has_raised("stderr_det_coef_coint", "ValueError")
      /\ cached("stderr_coint") =>
           SameShape(cache["stderr_coint"],
                     Est(ret.value.K + ret.value.det_coef_coint.r, ret.value.r))
      /\ cached("stderr_beta") =>
           SameShape(cache["stderr_beta"], Est(ret.value.K, ret.value.r))
      /\ cached("stderr_det_coef_coint") =>
           SameShape(cache["stderr_det_coef_coint"], ret.value.det_coef_coint)

\* C19: for every deterministic specification stderr_alpha has shape
\* K x r, stderr_gamma K x K*(p-1) and stderr_det_coef K x (number of
\* deterministic regressors outside the cointegration relation); each is
\* read from an index range inside stderr_params, and the ranges of
\* stderr_gamma and stderr_det_coef do not overlap.
NumDetOutside(self) ==
    (IF "co" \in self.deterministic THEN 1 ELSE 0)
    + (IF "s" \in self.deterministic THEN num_of_seas - 1 ELSE 0)
    + (IF "lt" \in self.deterministic THEN 1 ELSE 0)

C19_ParamStderrRanges ==
    results_held =>
      LET self == ret.value
      IN  /\ ~has_raised("stderr_alpha", "ValueError")
          /\ ~has_raised("stderr_gamma", "ValueError")
          /\ ~has_raised("stderr_det_coef", "ValueError")
          /\ cached("stderr_alpha") =>
               SameShape(cache["stderr_alpha"], Est(self.K, self.r))
          /\ cached("stderr_gamma") =>
               SameShape(cache["stderr_gamma"], Est(self.K, self.K * (self.p - 1)))
          /\ cached("stderr_det_coef") =>
               SameShape(cache["stderr_det_coef"], Est(self.K, NumDetOutside(self)))
          /\ cached("stderr_params") =>
               LET n == Len(cache["stderr_params"])
               IN  /\ size(self.alpha) <= n
                   /\ stderr_gamma_start(self) + size(self.gamma) <= n
                   /\ size(self.det_coef) <= n
                   /\ stderr_gamma_start(self) + size(self.gamma)
                        <= n - size(self.det_coef)

\* C20: a results container constructed without the builder matrices
\* recomputes them identical to the matrices the estimator used for the
\* same model: same effective sample size T = N - p and the same
\* delta_y_1_T, y_min1 and delta_x.
C20_RebuiltAgrees ==
    (results_held /\ res2 # None) =>
      /\ res2[1].ok
      /\ res2[1].value.T = ret.value.T
      /\ res2[1].value.delta_y_1_T = ret.value.delta_y_1_T
      /\ res2[1].value.y_min1 = ret.value.y_min1
      /\ res2[1].value.delta_x = ret.value.delta_x

====
